---- MODULE Spec2Model ----
(***************************************************************************)
(* hl7-definitions: the build script (build.rs) that lowers the table      *)
(* catalog and the definitions catalog into generated static maps, the     *)
(* compilation of that generated text into the library (lib.rs, include!), *)
(* and the query functions of lib.rs over the compiled-in store.           *)
(*                                                                         *)
(* Text is a sequence of one-character strings.  An Option is a sequence   *)
(* of length at most one: None is << >>, Some(x) is << x >>.               *)
(***************************************************************************)
EXTENDS Integers, Sequences, FiniteSets, TLC

VARIABLES tablesOn, features, tablesSrc, defsSrc,
          pc, buf, file, panicMsg, store,
          prevFile, prevStore, prevTablesOn

vars == <<tablesOn, features, tablesSrc, defsSrc,
          pc, buf, file, panicMsg, store,
          prevFile, prevStore, prevTablesOn>>

None == << >>

Some(x) == << x >>

Range(s) == { s[i] : i \in 1..Len(s) }

RECURSIVE SetToSeq(_)
SetToSeq(S) ==
  IF S = {} THEN << >>
  ELSE LET x == CHOOSE y \in S : TRUE IN << x >> \o SetToSeq(S \ {x})

\* Every ordering of a finite set: the orders in which a std HashMap, whose
\* hasher is seeded at random per process, may iterate over its keys.
Perms(S) == { q \in [1..Cardinality(S) -> S] : Range(q) = S }

BoundedSeq(S, n) == UNION { [1..k -> S] : k \in 0..n }

(* ------------------------- bounds of the model ------------------------- *)

MaxTables == 2

MaxVersions == 2

MaxSubfields == 2

MaxDepth == 2

MaxOpt == 4

MaxRep == 2

(* ----------------------------- numbers as text ------------------------- *)

DigitChars == << "0", "1", "2", "3", "4", "5", "6", "7", "8", "9" >>

IsDigit(c) == \E i \in 1..10 : DigitChars[i] = c

DigitVal(c) == (CHOOSE i \in 1..10 : DigitChars[i] = c) - 1

U16Max == 65535

\* Display of an unsigned integer ({table}, {min}, {n}, ... in format!).
RECURSIVE ToDec(_)
ToDec(n) ==
  IF n < 10 THEN << DigitChars[n + 1] >>
  ELSE ToDec(n \div 10) \o << DigitChars[(n % 10) + 1] >>

\* rustc reading a decimal integer literal back.
RECURSIVE FromDec(_)
FromDec(s) ==
  IF Len(s) = 0 THEN 0
  ELSE 10 * FromDec(SubSeq(s, 1, Len(s) - 1)) + DigitVal(s[Len(s)])

\* str::parse::<u16>: an optional leading "+", then one or more decimal
\* digits, the value at most u16::MAX.  None is the Err case.
ParseU16Bad(k) ==
  LET d == IF Len(k) > 0 /\ k[1] = "+" THEN Tail(k) ELSE k
  IN  IF Len(d) = 0 \/ \E i \in 1..Len(d) : ~IsDigit(d[i]) THEN None
      ELSE Some(FromDec(d) % (U16Max + 1))

ParseU16(k) ==
  LET d == IF Len(k) > 0 /\ k[1] = "+" THEN Tail(k) ELSE k
  IN  IF Len(d) = 0 \/ \E i \in 1..Len(d) : ~IsDigit(d[i]) THEN None
      ELSE IF FromDec(d) > U16Max THEN None
      ELSE Some(FromDec(d))

(* --------------------------- string literals --------------------------- *)

\* The outcome of a literal the compiler rejects.
Bad == << "<compile error>" >>

\* r#"{s}"# as written by format!: the text is copied between the quotes.
RawLit(s) == [lit |-> "raw", body |-> s]

\* "{s}" as written by format!: the text is copied between plain quotes.
PlainLit(s) == [lit |-> "plain", body |-> s]

\* A phf key of string type is written with {:?} (str's Debug): backslash,
\* quote and line feed are escaped.
RECURSIVE DebugEscape(_)
DebugEscape(s) ==
  IF Len(s) = 0 THEN << >>
  ELSE LET c == Head(s)
           e == CASE c = "\\" -> << "\\", "\\" >>
                  [] c = "\"" -> << "\\", "\"" >>
                  [] c = "\n" -> << "\\", "n" >>
                  [] OTHER    -> << c >>
       IN  e \o DebugEscape(Tail(s))

KeyLit(s) == [lit |-> "plain", body |-> DebugEscape(s)]

\* rustc reading r#"..."#: the literal ends at the first quote followed by
\* a hash, so a body holding that pair leaves text the compiler rejects.
RawDecode(b) ==
  IF \E i \in 1..(Len(b) - 1) : b[i] = "\"" /\ b[i + 1] = "#" THEN Bad
  ELSE b

\* rustc reading "...": a bare quote ends the literal early, a backslash
\* starts an escape; an unknown or unfinished escape is rejected.
RECURSIVE PlainDecode(_)
PlainDecode(b) ==
  IF Len(b) = 0 THEN << >>
  ELSE IF Head(b) = "\"" THEN Bad
  ELSE IF Head(b) = "\\" THEN
    IF Len(b) < 2 THEN Bad
    ELSE LET e == b[2]
             r == PlainDecode(SubSeq(b, 3, Len(b)))
             c == CASE e = "n"  -> "\n"
                    [] e = "t"  -> "\t"
                    [] e = "\\" -> "\\"
                    [] e = "\"" -> "\""
                    [] OTHER    -> "?"
         IN  IF e \notin { "n", "t", "\\", "\"" } \/ r = Bad THEN Bad
             ELSE << c >> \o r
  ELSE LET r == PlainDecode(Tail(b))
       IN  IF r = Bad THEN Bad ELSE << Head(b) >> \o r

Decode(l) == IF l.lit = "raw" THEN RawDecode(l.body) ELSE PlainDecode(l.body)

(* ------------------- lowering: source object to text ------------------- *)

map_optionality_swapped(opt) ==
  CASE opt = 1 -> "FieldOptionality::Optional"
    [] opt = 2 -> "FieldOptionality::Required"
    [] opt = 3 -> "FieldOptionality::Conditional"
    [] opt = 0 -> "FieldOptionality::Optional"
    [] OTHER   -> "FieldOptionality::BackwardCompatibility"

map_optionality(opt) ==
  CASE opt = 1 -> "FieldOptionality::Optional"
    [] opt = 2 -> "FieldOptionality::Required"
    [] opt = 3 -> "FieldOptionality::Conditional"
    [] OTHER   -> "FieldOptionality::BackwardCompatibility"

\* match rep { 0 => Unbounded, 1 => Single, n => Bounded({n}) }
FormatRep(rep) ==
  CASE rep = 0 -> [tok |-> "FieldRepeatability::Unbounded", n |-> << >>]
    [] rep = 1 -> [tok |-> "FieldRepeatability::Single", n |-> << >>]
    [] OTHER   -> [tok |-> "FieldRepeatability::Bounded", n |-> ToDec(rep)]

\* match len/table { Some(x) => "Some({x})", None => "None" }
FormatOptNum(o) ==
  IF o = None THEN [tok |-> "None", n |-> << >>]
  ELSE [tok |-> "Some", n |-> ToDec(o[1])]

\* The closure applied to each subfield of a Field.
FormatFieldSubField(s) ==
  [datatype      |-> RawLit(s.datatype),
   description   |-> RawLit(s.desc),
   optionality   |-> map_optionality(s.opt),
   repeatability |-> FormatRep(s.rep),
   max_length    |-> FormatOptNum(s.len),
   table         |-> FormatOptNum(s.table)]

\* The closure applied to each field of a Segment.
FormatSegmentField(f) ==
  [datatype      |-> RawLit(f.datatype),
   description   |-> RawLit(f.desc),
   optionality   |-> map_optionality(f.opt),
   repeatability |-> FormatRep(f.rep),
   max_length    |-> FormatOptNum(f.len),
   table         |-> FormatOptNum(f.table)]

FormatField(field) ==
  [description |-> PlainLit(field.desc),
   subfields   |-> [i \in 1..Len(field.subfields) |->
                      FormatFieldSubField(field.subfields[i])]]

FormatSegment(segment) ==
  [description |-> PlainLit(segment.desc),
   fields      |-> [i \in 1..Len(segment.fields) |->
                      FormatSegmentField(segment.fields[i])]]

FormatCompound(c) ==
  [name        |-> IF c.name = None THEN [tok |-> "None"]
                   ELSE [tok |-> "Some", s |-> RawLit(c.name[1])],
   description |-> RawLit(c.desc),
   min         |-> ToDec(c.min),
   max         |-> ToDec(c.max)]

FormatCompounds(compounds) ==
  IF compounds = None THEN [tok |-> "None"]
  ELSE [tok |-> "Some",
        items |-> [i \in 1..Len(compounds[1]) |-> FormatCompound(compounds[1][i])]]

\* A lowering that hoists the grandchildren of a node next to its children.
RECURSIVE format_message_segment_flat(_)
format_message_segment_flat(s) ==
  LET kidsOf(n) == IF n.children = None THEN << >> ELSE n.children[1]
      RECURSIVE Flat(_)
      Flat(ks) == IF Len(ks) = 0 THEN << >>
                  ELSE << [Head(ks) EXCEPT !.children = None] >>
                       \o Flat(kidsOf(Head(ks))) \o Flat(Tail(ks))
      leaf(n) == [name        |-> RawLit(n.name),
                  description |-> RawLit(n.desc),
                  min         |-> ToDec(n.min),
                  max         |-> ToDec(n.max),
                  children    |-> [tok |-> "None"],
                  compounds   |-> FormatCompounds(n.compounds)]
      fk == Flat(kidsOf(s))
  IN  [name        |-> RawLit(s.name),
       description |-> RawLit(s.desc),
       min         |-> ToDec(s.min),
       max         |-> ToDec(s.max),
       children    |-> IF s.children = None THEN [tok |-> "None"]
                       ELSE [tok |-> "Some",
                             items |-> [i \in 1..Len(fk) |-> leaf(fk[i])]],
       compounds   |-> FormatCompounds(s.compounds)]

RECURSIVE format_message_segment(_)
format_message_segment(s) ==
  [name        |-> RawLit(s.name),
   description |-> RawLit(s.desc),
   min         |-> ToDec(s.min),
   max         |-> ToDec(s.max),
   children    |-> IF s.children = None THEN [tok |-> "None"]
                   ELSE [tok |-> "Some",
                         items |-> [i \in 1..Len(s.children[1]) |->
                                      format_message_segment(s.children[1][i])]],
   compounds   |-> FormatCompounds(s.compounds)]

FormatMessage(message) ==
  [name        |-> RawLit(message.name),
   description |-> RawLit(message.desc),
   segments    |-> [i \in 1..Len(message.segments.segments) |->
                      format_message_segment(message.segments.segments[i])]]

(* ------------- the generated file and what rustc makes of it ----------- *)

HeaderItem == [name |-> << "#[allow(unused)] pub mod codegen {" >>, body |-> [tok |-> "open"]]

FooterItem == [name |-> << "}" >>, body |-> [tok |-> "close"]]

\* One "pub static NAME: ... = BODY;" line.  A phf map body is the set of its
\* entries: phf_codegen hashes with a fixed seed and lays the entries out by
\* slot, so the text of a map depends on its entries only, not on the order
\* in which entry() was called.
Static(name, body) == [name |-> name, body |-> body]

TableStaticName(id) == << "TABLE_" >> \o ToDec(id)

\* version.replace('.', "_")
Replace(s, from, to) ==
  LET parts == [i \in 1..Len(s) |-> IF s[i] = from THEN to ELSE << s[i] >>]
      RECURSIVE Cat(_)
      Cat(i) == IF i > Len(s) THEN << >> ELSE parts[i] \o Cat(i + 1)
  IN  Cat(1)

DefsStaticName(version, what) ==
  << "DEFS_V" >> \o Replace(version, ".", << "_" >>) \o << what >>

\* format!("CARGO_FEATURE_{}", version.replace('.', ""))
FeatureName(version) == << "CARGO_FEATURE_" >> \o Replace(version, ".", << >>)

Statics(f, n) == { i \in 1..Len(f) : f[i].name = n }

BodyOf(f, n) == f[CHOOSE i \in Statics(f, n) : TRUE].body

OptionalityValue(tok) ==
  CASE tok = "FieldOptionality::Optional"    -> "Optional"
    [] tok = "FieldOptionality::Required"    -> "Required"
    [] tok = "FieldOptionality::Conditional" -> "Conditional"
    [] tok = "FieldOptionality::BackwardCompatibility" -> "BackwardCompatibility"

RepValue(r) ==
  CASE r.tok = "FieldRepeatability::Unbounded" -> [kind |-> "Unbounded", n |-> 0]
    [] r.tok = "FieldRepeatability::Single"    -> [kind |-> "Single", n |-> 0]
    [] r.tok = "FieldRepeatability::Bounded"   -> [kind |-> "Bounded", n |-> FromDec(r.n)]

OptNumValue(o) == IF o.tok = "None" THEN None ELSE Some(FromDec(o.n))

CompileSubField(t) ==
  [datatype      |-> Decode(t.datatype),
   description   |-> Decode(t.description),
   optionality   |-> OptionalityValue(t.optionality),
   max_length    |-> OptNumValue(t.max_length),
   repeatability |-> RepValue(t.repeatability),
   table         |-> OptNumValue(t.table)]

SubFieldBad(t) == Decode(t.datatype) = Bad \/ Decode(t.description) = Bad

CompileField(t) ==
  [description |-> Decode(t.description),
   subfields   |-> [i \in 1..Len(t.subfields) |-> CompileSubField(t.subfields[i])]]

FieldBad(t) ==
  \/ Decode(t.description) = Bad
  \/ \E i \in 1..Len(t.subfields) : SubFieldBad(t.subfields[i])

CompileSegment(t) ==
  [description |-> Decode(t.description),
   fields      |-> [i \in 1..Len(t.fields) |-> CompileSubField(t.fields[i])]]

SegmentBad(t) ==
  \/ Decode(t.description) = Bad
  \/ \E i \in 1..Len(t.fields) : SubFieldBad(t.fields[i])

CompileCompound(t) ==
  [name        |-> IF t.name.tok = "None" THEN None ELSE Some(Decode(t.name.s)),
   description |-> Decode(t.description),
   min         |-> FromDec(t.min),
   max         |-> FromDec(t.max)]

CompoundBad(t) ==
  \/ Decode(t.description) = Bad
  \/ t.name.tok = "Some" /\ Decode(t.name.s) = Bad

RECURSIVE CompileMessageSegment(_)
CompileMessageSegment(t) ==
  [name        |-> Decode(t.name),
   description |-> Decode(t.description),
   min         |-> FromDec(t.min),
   max         |-> FromDec(t.max),
   children    |-> IF t.children.tok = "None" THEN None
                   ELSE Some([i \in 1..Len(t.children.items) |->
                                CompileMessageSegment(t.children.items[i])]),
   compounds   |-> IF t.compounds.tok = "None" THEN None
                   ELSE Some([i \in 1..Len(t.compounds.items) |->
                                CompileCompound(t.compounds.items[i])])]

RECURSIVE MessageSegmentBad(_)
MessageSegmentBad(t) ==
  \/ Decode(t.name) = Bad
  \/ Decode(t.description) = Bad
  \/ t.children.tok = "Some"
       /\ \E i \in 1..Len(t.children.items) : MessageSegmentBad(t.children.items[i])
  \/ t.compounds.tok = "Some"
       /\ \E i \in 1..Len(t.compounds.items) : CompoundBad(t.compounds.items[i])

CompileMessage(t) ==
  [name        |-> Decode(t.name),
   description |-> Decode(t.description),
   segments    |-> [i \in 1..Len(t.segments) |-> CompileMessageSegment(t.segments[i])]]

MessageBad(t) ==
  \/ Decode(t.name) = Bad
  \/ Decode(t.description) = Bad
  \/ \E i \in 1..Len(t.segments) : MessageSegmentBad(t.segments[i])

\* A phf::Map<&str, V> static as the library sees it: the lookup function
\* and, for a table, the entries slice (in slot order, which the key set
\* fixes).
EntryByKey(m, k) == CHOOSE e \in m : Decode(e.key) = k

StrKeys(m) == { Decode(e.key) : e \in m }

CompileTable(m) ==
  LET f == [k \in StrKeys(m) |-> Decode(EntryByKey(m, k).val)]
  IN  [map |-> f, entries |-> SetToSeq({ << k, f[k] >> : k \in DOMAIN f })]

CompileFields(m) == [k \in StrKeys(m) |-> CompileField(EntryByKey(m, k).val)]

CompileSegments(m) == [k \in StrKeys(m) |-> CompileSegment(EntryByKey(m, k).val)]

CompileMessages(m) == [k \in StrKeys(m) |-> CompileMessage(EntryByKey(m, k).val)]

TableBad(m) == \E e \in m : Decode(e.key) = Bad \/ Decode(e.val) = Bad

RootNames == { << "TABLE_DESCRIPTIONS" >>, << "TABLES" >>, << "DEFINITIONS" >>, << "VERSIONS" >> }

\* What the compiler rejects: an unbalanced module, a name defined twice, a
\* root static lib.rs names that is missing, a reference to a static that
\* is not there, a literal that does not lex.
CompileFails(f) ==
  \/ Len(f) < 2
  \/ f[1] # HeaderItem
  \/ f[Len(f)] # FooterItem
  \/ \E i, j \in 1..Len(f) : i # j /\ f[i].name = f[j].name
  \/ \E n \in RootNames : Statics(f, n) = {}
  \/ \E e \in BodyOf(f, << "TABLE_DESCRIPTIONS" >>).map : Decode(e.val) = Bad
  \/ \E e \in BodyOf(f, << "TABLES" >>).map :
        \/ Statics(f, e.val.ref) = {}
        \/ TableBad(BodyOf(f, e.val.ref).map)
  \/ \E e \in BodyOf(f, << "DEFINITIONS" >>).map :
        \/ Decode(e.key) = Bad
        \/ \E r \in { e.val.fields, e.val.segments, e.val.messages } : Statics(f, r) = {}
        \/ \E x \in BodyOf(f, e.val.fields).map : Decode(x.key) = Bad \/ FieldBad(x.val)
        \/ \E x \in BodyOf(f, e.val.segments).map : Decode(x.key) = Bad \/ SegmentBad(x.val)
        \/ \E x \in BodyOf(f, e.val.messages).map : Decode(x.key) = Bad \/ MessageBad(x.val)
  \/ \E i \in 1..Len(BodyOf(f, << "VERSIONS" >>).list) :
        Decode(BodyOf(f, << "VERSIONS" >>).list[i]) = Bad

NoStore == [ok |-> FALSE]

\* include!(concat!(env!("OUT_DIR"), "/codegen.rs")): the statics of the
\* library, read from the generated text.
Compile(f) ==
  IF CompileFails(f) THEN NoStore
  ELSE
    LET td   == BodyOf(f, << "TABLE_DESCRIPTIONS" >>).map
        tr   == BodyOf(f, << "TABLES" >>).map
        dm   == BodyOf(f, << "DEFINITIONS" >>).map
        vl   == BodyOf(f, << "VERSIONS" >>).list
        def(v) ==
          [fields   |-> CompileFields(BodyOf(f, v.fields).map),
           segments |-> CompileSegments(BodyOf(f, v.segments).map),
           messages |-> CompileMessages(BodyOf(f, v.messages).map)]
    IN  [ok                 |-> TRUE,
         TABLE_DESCRIPTIONS |-> [k \in { FromDec(e.key) : e \in td } |->
                                   Decode((CHOOSE e \in td : FromDec(e.key) = k).val)],
         TABLES             |-> [k \in { FromDec(e.key) : e \in tr } |->
                                   CompileTable(BodyOf(f,
                                     (CHOOSE e \in tr : FromDec(e.key) = k).val.ref).map)],
         DEFINITIONS        |-> [k \in StrKeys(dm) |-> def(EntryByKey(dm, k).val)],
         VERSIONS           |-> [i \in 1..Len(vl) |-> Decode(vl[i])]]

(* ------------------------- lib.rs: the query API ----------------------- *)
\* c is the compiled-in module codegen (the statics of a successful build).

Get(m, k) == IF k \in DOMAIN m THEN Some(m[k]) ELSE None

table_description(c, table) == Get(c.TABLE_DESCRIPTIONS, table)

table_value(c, table, key) ==
  IF table \in DOMAIN c.TABLES THEN Get(c.TABLES[table].map, key) ELSE None

table_values(c, table) ==
  IF table \in DOMAIN c.TABLES THEN Some(c.TABLES[table].entries) ELSE None

get_definition(c, version) == Get(c.DEFINITIONS, version)

get_field(c, version, field) ==
  IF version \in DOMAIN c.DEFINITIONS
  THEN Get(c.DEFINITIONS[version].fields, field) ELSE None

get_segment(c, version, segment) ==
  IF version \in DOMAIN c.DEFINITIONS
  THEN Get(c.DEFINITIONS[version].segments, segment) ELSE None

get_message(c, version, message) ==
  IF version \in DOMAIN c.DEFINITIONS
  THEN Get(c.DEFINITIONS[version].messages, message) ELSE None

(* ------------------------- build.rs: the build ------------------------- *)

\* BufWriter::drop while unwinding: what was buffered reaches the file.
Panic(msg) ==
  /\ pc' = "panicked"
  /\ panicMsg' = Some(msg)
  /\ file' = Some(file[1] \o buf)
  /\ buf' = << >>
  /\ UNCHANGED <<tablesOn, features, tablesSrc, defsSrc, store,
                 prevFile, prevStore, prevTablesOn>>

\* main: File::create (the file is made or truncated), BufWriter::new.
Create ==
  /\ pc = "start"
  /\ pc' = "header"
  /\ file' = Some(<< >>)
  /\ buf' = << >>
  /\ UNCHANGED <<tablesOn, features, tablesSrc, defsSrc, panicMsg, store,
                 prevFile, prevStore, prevTablesOn>>

WriteHeader ==
  /\ pc = "header"
  /\ pc' = "tables"
  /\ buf' = buf \o << HeaderItem >>
  /\ UNCHANGED <<tablesOn, features, tablesSrc, defsSrc, file, panicMsg, store,
                 prevFile, prevStore, prevTablesOn>>

\* codegen_tables, CARGO_FEATURE_TABLES unset: two empty root maps.
CodegenTablesDisabled ==
  /\ pc = "tables"
  /\ ~tablesOn
  /\ pc' = "defs"
  /\ buf' = buf \o << Static(<< "TABLES" >>, [map |-> {}]),
                      Static(<< "TABLE_DESCRIPTIONS" >>, [map |-> {}]) >>
  /\ UNCHANGED <<tablesOn, features, tablesSrc, defsSrc, file, panicMsg, store,
                 prevFile, prevStore, prevTablesOn>>

\* serde_json::from_str(..).expect("can parse tables")
CodegenTablesUnparseable ==
  /\ pc = "tables"
  /\ tablesOn
  /\ ~tablesSrc.ok
  /\ Panic(<< "can parse tables" >>)

\* The ids of the catalog that parse::<u16> rejects.
BadTableIds == { k \in DOMAIN tablesSrc.tables : ParseU16(k) = None }

\* unwrap_or_else(|_| panic!("can parse {k} as u16")), at the first
\* rejected id the iteration meets.
CodegenTablesBadId ==
  /\ pc = "tables"
  /\ tablesOn
  /\ tablesSrc.ok
  /\ \E k \in BadTableIds : Panic(<< "can parse " >> \o k \o << " as u16" >>)

\* .collect() into HashMap<u16, Table>: the catalog iterated in order q,
\* a later entry replacing an earlier one under the same key.
Collected(q) ==
  LET ids == { ParseU16(q[i])[1] : i \in 1..Len(q) }
      last(n) == CHOOSE i \in 1..Len(q) :
                   /\ ParseU16(q[i])[1] = n
                   /\ \A j \in (i + 1)..Len(q) : ParseU16(q[j])[1] # n
  IN  [n \in ids |-> tablesSrc.tables[q[last(n)]]]

TableDescriptionsStatic(tables) ==
  Static(<< "TABLE_DESCRIPTIONS" >>,
         [map |-> { [key |-> ToDec(k), val |-> RawLit(tables[k].desc)] : k \in DOMAIN tables }])

TableStatic(table, v) ==
  Static(TableStaticName(table),
         [map |-> { [key |-> KeyLit(k), val |-> RawLit(v.values[k])] : k \in DOMAIN v.values }])

TablesStatic(tables) ==
  Static(<< "TABLES" >>,
         [map |-> { [key |-> ToDec(k), val |-> [ref |-> TableStaticName(k)]] : k \in DOMAIN tables }])

TablesOutputRootFirst(tables, o) ==
  << TableDescriptionsStatic(tables), TablesStatic(tables) >>
  \o [i \in 1..Len(o) |-> TableStatic(o[i], tables[o[i]])]

\* What codegen_tables writes for the collected tables, tables.iter()
\* yielding them in order o: TABLE_DESCRIPTIONS, one static per table,
\* then the TABLES map of references to them.
TablesOutput(tables, o) ==
  << TableDescriptionsStatic(tables) >>
  \o [i \in 1..Len(o) |-> TableStatic(o[i], tables[o[i]])]
  \o << TablesStatic(tables) >>

\* codegen_tables, the feature set and every id accepted.
CodegenTables ==
  /\ pc = "tables"
  /\ tablesOn
  /\ tablesSrc.ok
  /\ BadTableIds = {}
  /\ \E q \in Perms(DOMAIN tablesSrc.tables) :
       LET tables == Collected(q)
       IN  \E o \in Perms(DOMAIN tables) : buf' = buf \o TablesOutput(tables, o)
  /\ pc' = "defs"
  /\ UNCHANGED <<tablesOn, features, tablesSrc, defsSrc, file, panicMsg, store,
                 prevFile, prevStore, prevTablesOn>>

\* serde_json::from_str(..).expect("can parse definitions")
CodegenDefinitionsUnparseable ==
  /\ pc = "defs"
  /\ ~defsSrc.ok
  /\ Panic(<< "can parse definitions" >>)

VersionEnabledWithTables(version) == tablesOn /\ FeatureName(version) \in features

VersionEnabledAlways(version) == version = version

\* std::env::var(format!("CARGO_FEATURE_{}", ..)) is Ok
VersionEnabled(version) == FeatureName(version) \in features

VersionStatics(version, d) ==
  << Static(DefsStaticName(version, "_FIELDS"),
            [map |-> { [key |-> KeyLit(k), val |-> FormatField(d.fields[k])]
                       : k \in DOMAIN d.fields }]),
     Static(DefsStaticName(version, "_SEGMENTS"),
            [map |-> { [key |-> KeyLit(k), val |-> FormatSegment(d.segments[k])]
                       : k \in DOMAIN d.segments }]),
     Static(DefsStaticName(version, "_MESSAGES"),
            [map |-> { [key |-> KeyLit(k), val |-> FormatMessage(d.messages[k])]
                       : k \in DOMAIN d.messages }]) >>

DefinitionEntry(version) ==
  [key |-> KeyLit(version),
   val |-> [fields   |-> DefsStaticName(version, "_FIELDS"),
            segments |-> DefsStaticName(version, "_SEGMENTS"),
            messages |-> DefsStaticName(version, "_MESSAGES")]]

\* The versions loop over the catalog in iteration order q.
RECURSIVE VersionsLoop(_, _)
VersionsLoop(q, i) ==
  IF i > Len(q) THEN << >>
  ELSE (IF VersionEnabled(q[i]) THEN VersionStatics(q[i], defsSrc.defs[q[i]]) ELSE << >>)
       \o VersionsLoop(q, i + 1)

\* definitions.keys().map(|k| format!(r#""{k}""#))
VersionsStatic(q) ==
  Static(<< "VERSIONS" >>, [list |-> [i \in 1..Len(q) |-> PlainLit(q[i])]])

DefinitionsStatic(q) ==
  Static(<< "DEFINITIONS" >>,
         [map |-> { DefinitionEntry(q[i]) : i \in { j \in 1..Len(q) : VersionEnabled(q[j]) } }])

CodegenDefinitions ==
  /\ pc = "defs"
  /\ defsSrc.ok
  /\ \E q \in Perms(DOMAIN defsSrc.defs) :
       buf' = buf \o VersionsLoop(q, 1) \o << DefinitionsStatic(q), VersionsStatic(q) >>
  /\ pc' = "footer"
  /\ UNCHANGED <<tablesOn, features, tablesSrc, defsSrc, file, panicMsg, store,
                 prevFile, prevStore, prevTablesOn>>

\* main: the closing brace, then the BufWriter is dropped and flushed.
WriteFooter ==
  /\ pc = "footer"
  /\ pc' = "built"
  /\ file' = Some(file[1] \o buf \o << FooterItem >>)
  /\ buf' = << >>
  /\ UNCHANGED <<tablesOn, features, tablesSrc, defsSrc, panicMsg, store,
                 prevFile, prevStore, prevTablesOn>>

\* The crate is compiled with the generated file included.
CompileLib ==
  /\ pc = "built"
  /\ store' = Compile(file[1])
  /\ pc' = IF store'.ok THEN "compiled" ELSE "compile_error"
  /\ UNCHANGED <<tablesOn, features, tablesSrc, defsSrc, buf, file, panicMsg,
                 prevFile, prevStore, prevTablesOn>>

\* cargo runs the build script again over the same sources, the tables
\* feature of the new build being switched on or off.
Rerun ==
  /\ pc \in { "compiled", "compile_error", "panicked" }
  /\ pc' = "start"
  /\ prevFile' = file
  /\ prevStore' = store
  /\ prevTablesOn' = tablesOn
  /\ tablesOn' \in BOOLEAN
  /\ store' = NoStore
  /\ panicMsg' = None
  /\ UNCHANGED <<features, tablesSrc, defsSrc, buf, file>>

(* ------------------------- the inputs of a build ----------------------- *)

Malformed == [ok |-> FALSE]

\* Keys of the table catalog: two spellings of 7, a second table, a
\* non-numeric key and one past u16::MAX.
TableIdStrs ==
  { << "7" >>, << "0", "7" >>, << "9", "1" >>, << "x" >>, << "6", "5", "5", "3", "6" >> }

TableCands ==
  { [desc |-> << "S", "e", "x" >>, values |-> << >>],
    [desc |-> << "D" >>,
     values |-> (<< "D" >> :> << "d", "e", "f" >>) @@ (<< "I" >> :> << "i", "m", "m" >>)],
    [desc |-> << "E" >>, values |-> (<< "D" >> :> << "\\", "n" >>)],
    [desc |-> << "\"", "#" >>, values |-> (<< "\"" >> :> << "q" >>)] }

TableCatalogs ==
  { [ok |-> TRUE, tables |-> t] :
      t \in UNION { [S -> TableCands] :
                    S \in { X \in SUBSET TableIdStrs : Cardinality(X) <= MaxTables } } }

BaseTables ==
  [ok |-> TRUE,
   tables |-> (<< "7" >> :> [desc |-> << "S", "e", "x" >>,
                             values |-> (<< "F" >> :> << "f" >>)])]

V23 == << "2", ".", "3" >>

V251 == << "2", ".", "5", ".", "1" >>

\* A version key whose feature name is that of 2.3.
V23x == << "2", "3" >>

VersionStrs == { V23, V251, V23x }

AD == << "A", "D" >>

MSH == << "M", "S", "H" >>

A01 == << "A", "0", "1" >>

BaseSubField ==
  [datatype |-> << "S", "T" >>, desc |-> << "s" >>, opt |-> 2, rep |-> 1,
   len |-> Some(120), table |-> None]

BaseField == [desc |-> << "a" >>, subfields |-> << BaseSubField >>]

BaseSegment == [desc |-> << "m" >>, fields |-> << BaseSubField, BaseSubField >>]

Leaf(name, min, max) ==
  [name |-> name, desc |-> << "l" >>, min |-> min, max |-> max,
   children |-> None, compounds |-> None]

BaseMessage ==
  [desc |-> << "x" >>, name |-> A01,
   segments |-> [desc |-> << "x" >>, segments |-> << Leaf(MSH, 1, 1) >>]]

BaseDefinition ==
  [fields |-> (AD :> BaseField), segments |-> (MSH :> BaseSegment),
   messages |-> (A01 :> BaseMessage)]

\* A second definition: other names, no messages.
OtherDefinition ==
  [fields |-> (<< "T", "S" >> :> [desc |-> << "t" >>, subfields |-> << >>]),
   segments |-> (<< "P", "I", "D" >> :> [desc |-> << "p" >>, fields |-> << >>]),
   messages |-> << >>]

OneVersion(d) == [ok |-> TRUE, defs |-> (V251 :> d)]

VersionCatalogs ==
  { [ok |-> TRUE, defs |-> t] :
      t \in UNION { [S -> { BaseDefinition, OtherDefinition }] :
                    S \in { X \in SUBSET VersionStrs : Cardinality(X) <= MaxVersions } } }

SubFieldCands ==
  { [BaseSubField EXCEPT !.opt = o] : o \in 0..MaxOpt }
  \cup { [BaseSubField EXCEPT !.rep = r, !.len = None, !.table = Some(7)] : r \in 0..MaxRep }
  \cup { [BaseSubField EXCEPT !.desc = << "\\", "n" >>, !.datatype = << "\"" >>] }

\* Descriptions of a Field or Segment: plain, with a backslash escape, with
\* a quote, with a backslash before a letter that starts no escape.
EntityDescs == { << "a" >>, << "\\", "n" >>, << "\"" >>, << "\\", "a" >> }

FieldCands ==
  { [desc |-> << "a" >>, subfields |-> sf] : sf \in BoundedSeq(SubFieldCands, MaxSubfields) }
  \cup { [desc |-> d, subfields |-> << BaseSubField >>] : d \in EntityDescs }

SegmentCands ==
  { [desc |-> << "m" >>, fields |-> sf] : sf \in BoundedSeq(SubFieldCands, MaxSubfields) }
  \cup { [desc |-> d, fields |-> << BaseSubField >>] : d \in EntityDescs }

TwoCompounds ==
  Some(<< [name |-> None, desc |-> << "c" >>, min |-> 0, max |-> 1],
          [name |-> Some(<< "Z" >>), desc |-> << "\"" >>, min |-> 1, max |-> 12] >>)

\* Nodes without children: a plain one, one with two compounds, one whose
\* children and compounds are present and empty.
Leaves ==
  { Leaf(MSH, 1, 1),
    [Leaf(<< "P" >>, 0, 2) EXCEPT !.compounds = TwoCompounds],
    [Leaf(<< "E" >>, 0, 1) EXCEPT !.children = Some(<< >>), !.compounds = Some(<< >>)] }

Group(kids) ==
  [name |-> << "G" >>, desc |-> << "g" >>, min |-> 0, max |-> 3,
   children |-> Some(kids), compounds |-> None]

\* Sequences of one node, and of two with the plain leaf first or last.
KidSeqs(S) ==
  { << a >> : a \in S } \cup { << Leaf(MSH, 1, 1), a >> : a \in S }
                        \cup { << a, Leaf(MSH, 1, 1) >> : a \in S }

\* The segment nodes nested at most d groups deep.
RECURSIVE Trees(_)
Trees(d) ==
  IF d = 0 THEN Leaves
  ELSE Leaves \cup { Group(k) : k \in KidSeqs(Trees(d - 1)) }

MessageCands ==
  { [desc |-> << "x" >>, name |-> A01, segments |-> [desc |-> << "x" >>, segments |-> sg]] :
      sg \in { << >> } \cup KidSeqs(Trees(MaxDepth)) }

\* The builds considered: each family varies one part of the input over
\* its candidates and keeps the rest at the base input.
InitInputs ==
  \/ /\ tablesSrc \in { Malformed } \cup TableCatalogs
     /\ defsSrc = OneVersion(BaseDefinition)
     /\ features = { FeatureName(V251) }
  \/ /\ tablesSrc = BaseTables
     /\ defsSrc \in { Malformed } \cup VersionCatalogs
     /\ features \in SUBSET { FeatureName(V23), FeatureName(V251) }
  \/ /\ tablesSrc = BaseTables
     /\ defsSrc \in { OneVersion([BaseDefinition EXCEPT !.fields = (AD :> f)]) : f \in FieldCands }
     /\ features = { FeatureName(V251) }
  \/ /\ tablesSrc = BaseTables
     /\ defsSrc \in { OneVersion([BaseDefinition EXCEPT !.segments = (MSH :> g)]) : g \in SegmentCands }
     /\ features = { FeatureName(V251) }
  \/ /\ tablesSrc = BaseTables
     /\ defsSrc \in { OneVersion([BaseDefinition EXCEPT !.messages = (A01 :> m)]) : m \in MessageCands }
     /\ features = { FeatureName(V251) }

Init ==
  /\ InitInputs
  /\ tablesOn \in BOOLEAN
  /\ pc = "start"
  /\ buf = << >>
  /\ file = None
  /\ panicMsg = None
  /\ store = NoStore
  /\ prevFile = None
  /\ prevStore = NoStore
  /\ prevTablesOn = FALSE

Next ==
  \/ Create
  \/ WriteHeader
  \/ CodegenTablesDisabled
  \/ CodegenTablesUnparseable
  \/ CodegenTablesBadId
  \/ CodegenTables
  \/ CodegenDefinitionsUnparseable
  \/ CodegenDefinitions
  \/ WriteFooter
  \/ CompileLib
  \/ Rerun

Spec == Init /\ [][Next]_vars

(* ------------------------------ the claims ---------------------------- *)

Compiled == pc = "compiled"

SrcVersions == IF defsSrc.ok THEN DOMAIN defsSrc.defs ELSE {}

SwitchedOn(v) == FeatureName(v) \in features

VersionProbes == VersionStrs \cup { << "9", ".", "9" >> }

NameProbes == { AD, MSH, A01, << "T", "S" >>, << "P", "I", "D" >>, << "Z", "Z" >> }

IdProbes == { 0, 7, 91, 65535 }

CodeProbes == { << "D" >>, << "I" >>, << "F" >>, << "\"" >>, << "Q" >> }

\* C1: in the compiled library VERSIONS holds exactly the versions of the
\* definitions catalog whose feature switch is on, and get_definition of a
\* version whose switch is off is not-found.
C1_VersionsExactlyEnabled ==
  Compiled =>
    /\ Range(store.VERSIONS) = { v \in SrcVersions : SwitchedOn(v) }
    /\ \A v \in SrcVersions : ~SwitchedOn(v) => get_definition(store, v) = None

\* C2: a build over the same catalogs and the same features writes the same
\* file as the build before it, statics and VERSIONS entries in the same order.
C2_SameInputsSameOutput ==
  (pc = "built" /\ prevFile # None /\ prevTablesOn = tablesOn) => file = prevFile

\* C3: with tables enabled, for every id of the table catalog
\* table_description returns the source description, table_value returns
\* the source meaning of every code of that table, and not-found for a code
\* the table lacks or an id the catalog lacks.
C3_TableLookupsExact ==
  (Compiled /\ tablesOn) =>
    /\ \A k \in DOMAIN tablesSrc.tables :
         LET id == FromDec(k)
             t  == tablesSrc.tables[k]
         IN  /\ table_description(store, id) = Some(t.desc)
             /\ \A c \in DOMAIN t.values : table_value(store, id, c) = Some(t.values[c])
             /\ \A c \in CodeProbes \ DOMAIN t.values : table_value(store, id, c) = None
    /\ \A id \in IdProbes \ { FromDec(k) : k \in DOMAIN tablesSrc.tables } :
         \A c \in CodeProbes : table_value(store, id, c) = None

\* C4: with tables enabled, for every id of the table catalog table_values
\* returns a sequence whose pairs are exactly the (code, meaning) pairs of
\* the source table and whose length is the number of its codes.
C4_TableValuesExact ==
  (Compiled /\ tablesOn) =>
    \A k \in DOMAIN tablesSrc.tables :
      LET t == tablesSrc.tables[k]
          r == table_values(store, FromDec(k))
      IN  /\ r # None
          /\ Range(r[1]) = { << c, t.values[c] >> : c \in DOMAIN t.values }
          /\ Len(r[1]) = Cardinality(DOMAIN t.values)

\* C5: with tables disabled every table query is not-found, and a build that
\* differs from the one before it only in the tables feature answers
\* get_definition, get_field, get_segment and get_message as that one did.
C5_TablesOffFrame ==
  /\ (Compiled /\ ~tablesOn) =>
       \A id \in IdProbes :
         /\ table_description(store, id) = None
         /\ table_values(store, id) = None
         /\ \A c \in CodeProbes : table_value(store, id, c) = None
  /\ (Compiled /\ prevStore.ok /\ prevTablesOn # tablesOn) =>
       \A v \in VersionProbes :
         /\ get_definition(store, v) = get_definition(prevStore, v)
         /\ \A n \in NameProbes :
              /\ get_field(store, v, n) = get_field(prevStore, v, n)
              /\ get_segment(store, v, n) = get_segment(prevStore, v, n)
              /\ get_message(store, v, n) = get_message(prevStore, v, n)

C5_Witness ==
  /\ Compiled /\ ~tablesOn /\ prevStore.ok /\ prevTablesOn
  /\ table_description(prevStore, 7) # None
  /\ get_field(store, V251, AD) # None
  /\ get_message(store, V251, A01) # None

ExpectRep(rep) ==
  CASE rep = 0 -> [kind |-> "Unbounded", n |-> 0]
    [] rep = 1 -> [kind |-> "Single", n |-> 0]
    [] OTHER   -> [kind |-> "Bounded", n |-> rep]

SubFieldsKept(src, got) ==
  /\ Len(got) = Len(src)
  /\ \A i \in 1..Len(src) :
       /\ got[i].datatype = src[i].datatype
       /\ got[i].description = src[i].desc
       /\ got[i].max_length = src[i].len
       /\ got[i].table = src[i].table
       /\ got[i].repeatability = ExpectRep(src[i].rep)

\* C6: for every enabled version, get_field and get_segment return the
\* source description and the source subfields in order, each with its
\* datatype, description, max length, table reference and lowered
\* repeatability.
C6_FieldSegmentKept ==
  Compiled =>
    \A v \in { w \in SrcVersions : SwitchedOn(w) } :
      /\ \A k \in DOMAIN defsSrc.defs[v].fields :
           LET r == get_field(store, v, k)
           IN  /\ r # None
               /\ r[1].description = defsSrc.defs[v].fields[k].desc
               /\ SubFieldsKept(defsSrc.defs[v].fields[k].subfields, r[1].subfields)
      /\ \A k \in DOMAIN defsSrc.defs[v].segments :
           LET r == get_segment(store, v, k)
           IN  /\ r # None
               /\ r[1].description = defsSrc.defs[v].segments[k].desc
               /\ SubFieldsKept(defsSrc.defs[v].segments[k].fields, r[1].fields)

ExpectOptionality(opt) ==
  IF opt = 1 THEN "Optional"
  ELSE IF opt = 2 THEN "Required"
  ELSE IF opt = 3 THEN "Conditional"
  ELSE "BackwardCompatibility"

\* C7: every optionality code is lowered (1 Optional, 2 Required,
\* 3 Conditional, any other BackwardCompatibility), for the subfields of
\* Fields and the fields of Segments alike, and no code makes the build
\* abort: the build panics only on an unparseable catalog or a bad table id.
C7_OptionalityTotal ==
  /\ Compiled =>
       \A v \in { w \in SrcVersions : SwitchedOn(w) } :
         /\ \A k \in DOMAIN defsSrc.defs[v].fields :
              LET src == defsSrc.defs[v].fields[k].subfields
                  got == get_field(store, v, k)[1].subfields
              IN  \A i \in 1..Len(src) : got[i].optionality = ExpectOptionality(src[i].opt)
         /\ \A k \in DOMAIN defsSrc.defs[v].segments :
              LET src == defsSrc.defs[v].segments[k].fields
                  got == get_segment(store, v, k)[1].fields
              IN  \A i \in 1..Len(src) : got[i].optionality = ExpectOptionality(src[i].opt)
  /\ pc = "panicked" =>
       \/ ~defsSrc.ok
       \/ tablesOn /\ ~tablesSrc.ok
       \/ tablesOn /\ \E k \in DOMAIN tablesSrc.tables : ParseU16(k) = None

C7_Witness ==
  /\ Compiled
  /\ get_field(store, V251, AD) # None
  /\ \E i, j \in 1..Len(defsSrc.defs[V251].fields[AD].subfields) :
       /\ defsSrc.defs[V251].fields[AD].subfields[i].opt = 0
       /\ defsSrc.defs[V251].fields[AD].subfields[j].opt > 3
       /\ get_field(store, V251, AD)[1].subfields[j].optionality = "BackwardCompatibility"

\* The store's image of a source node: the same tree, field for field.
RECURSIVE ExpectNode(_)
ExpectNode(s) ==
  [name        |-> s.name,
   description |-> s.desc,
   min         |-> s.min,
   max         |-> s.max,
   children    |-> IF s.children = None THEN None
                   ELSE Some([i \in 1..Len(s.children[1]) |-> ExpectNode(s.children[1][i])]),
   compounds   |-> IF s.compounds = None THEN None
                   ELSE Some([i \in 1..Len(s.compounds[1]) |->
                                [name        |-> s.compounds[1][i].name,
                                 description |-> s.compounds[1][i].desc,
                                 min         |-> s.compounds[1][i].min,
                                 max         |-> s.compounds[1][i].max]])]

\* C8: for every enabled version and every Message, get_message returns the
\* source tree: at every depth the same children and compounds, in the same
\* order, with the same values, absent where the source has none.
C8_MessageTreeKept ==
  Compiled =>
    \A v \in { w \in SrcVersions : SwitchedOn(w) } :
      \A k \in DOMAIN defsSrc.defs[v].messages :
        LET src == defsSrc.defs[v].messages[k]
            r   == get_message(store, v, k)
        IN  /\ r # None
            /\ r[1].name = src.name
            /\ r[1].description = src.desc
            /\ r[1].segments = [i \in 1..Len(src.segments.segments) |->
                                  ExpectNode(src.segments.segments[i])]

\* The store's image of TwoCompounds.
TwoCompoundsStore ==
  Some(<< [name |-> None, description |-> << "c" >>, min |-> 0, max |-> 1],
          [name |-> Some(<< "Z" >>), description |-> << "\"" >>, min |-> 1, max |-> 12] >>)

RECURSIVE Depth(_)
Depth(n) ==
  IF n.children = None \/ n.children = Some(<< >>) THEN 0
  ELSE 1 + Depth(n.children[1][
         CHOOSE i \in 1..Len(n.children[1]) :
           \A j \in 1..Len(n.children[1]) : Depth(n.children[1][j]) <= Depth(n.children[1][i])])

C8_Witness ==
  /\ Compiled
  /\ get_message(store, V251, A01) # None
  /\ \E i \in 1..Len(get_message(store, V251, A01)[1].segments) :
       LET n == get_message(store, V251, A01)[1].segments[i]
       IN  /\ Depth(n) = 2
           /\ \E a \in 1..Len(n.children[1]) :
                /\ n.children[1][a].children # None
                /\ \E b \in 1..Len(n.children[1][a].children[1]) :
                     n.children[1][a].children[1][b].compounds = TwoCompoundsStore

\* C9: a version that is switched off or not in the catalog is not-found
\* for get_definition and for every name of get_field, get_segment and
\* get_message; under an enabled version a name its map lacks is not-found.
C9_AbsentIsNotFound ==
  Compiled =>
    \A v \in VersionProbes :
      IF v \in SrcVersions /\ SwitchedOn(v)
      THEN LET d == defsSrc.defs[v]
           IN  /\ get_definition(store, v) # None
               /\ \A n \in NameProbes \ DOMAIN d.fields : get_field(store, v, n) = None
               /\ \A n \in NameProbes \ DOMAIN d.segments : get_segment(store, v, n) = None
               /\ \A n \in NameProbes \ DOMAIN d.messages : get_message(store, v, n) = None
      ELSE /\ get_definition(store, v) = None
           /\ \A n \in NameProbes :
                /\ get_field(store, v, n) = None
                /\ get_segment(store, v, n) = None
                /\ get_message(store, v, n) = None

C9_Witness ==
  /\ Compiled
  /\ \E v, w \in SrcVersions :
       /\ ~SwitchedOn(v) /\ get_field(store, v, AD) = None /\ AD \in DOMAIN defsSrc.defs[v].fields
       /\ SwitchedOn(w) /\ get_field(store, w, AD) # None /\ get_field(store, w, << "Z", "Z" >>) = None

\* The ids the claim calls bad: a character that is no digit, or a value
\* above 65535.
OffendingIds ==
  { k \in DOMAIN tablesSrc.tables :
      \/ \E i \in 1..Len(k) : k[i] \notin Range(DigitChars)
      \/ FromDec(k) > 65535 }

TableMapNames(f) ==
  { i \in 1..Len(f) : f[i].name[1] \in { "TABLE_", "TABLES", "TABLE_DESCRIPTIONS" } }

\* C10: with tables enabled, a catalog holding a non-numeric or out-of-range
\* id makes the table pass panic with a message naming such an id, and the
\* file of that build holds no table map.
C10_BadIdAborts ==
  (tablesOn /\ tablesSrc.ok /\ pc \notin { "start", "header", "tables" }) =>
    (OffendingIds # {} =>
       /\ pc = "panicked"
       /\ \E k \in OffendingIds : panicMsg = Some(<< "can parse " >> \o k \o << " as u16" >>)
       /\ TableMapNames(file[1]) = {}
       /\ buf = << >>)

C10_Witness ==
  /\ pc = "panicked" /\ tablesOn
  /\ panicMsg = Some(<< "can parse ", "6", "5", "5", "3", "6", " as u16" >>)
  /\ Len(file[1]) = 1

\* The output of a run that went through: the whole of what main writes,
\* from the module header to the closing brace, with the four root maps.
CompleteOutput(f) ==
  /\ Len(f) >= 2
  /\ f[1] = HeaderItem
  /\ f[Len(f)] = FooterItem
  /\ \A n \in RootNames : \E i \in 1..Len(f) : f[i].name = n

\* C11: whenever the build aborts on malformed input (unparseable table
\* catalog, bad table id, unparseable definitions catalog), the output file
\* is either absent or the complete output of a successful run; no partial
\* file is left behind.
C11_NoPartialOutput ==
  pc = "panicked" => (file = None \/ CompleteOutput(file[1]))

\* Everything written so far: the file and what the BufWriter still holds.
Emitted == (IF file = None THEN << >> ELSE file[1]) \o buf

TablePassItem(x) == x.name[1] \in { "TABLE_DESCRIPTIONS", "TABLE_", "TABLES" }

DefsPassItem(x) == x.name[1] \in { "DEFS_V", "DEFINITIONS", "VERSIONS" }

\* The static called n stands exactly once in f, and before position i.
OnceBefore(f, n, i) ==
  /\ Cardinality({ j \in 1..Len(f) : f[j].name = n }) = 1
  /\ \E j \in 1..(i - 1) : f[j].name = n

TableKeySetsAgree ==
  /\ DOMAIN store.TABLES = DOMAIN store.TABLE_DESCRIPTIONS
  /\ DOMAIN store.TABLES = { ParseU16(k)[1] : k \in DOMAIN tablesSrc.tables }
  /\ \A id \in IdProbes :
        table_description(store, id) = None <=> table_values(store, id) = None

\* C13: for a table catalog the build accepts, the two table root maps have
\* the same key set, the set of source table ids; table_description(id) is
\* found iff table_values(id) is; and no two id strings of the catalog
\* collapse into one entry: the store has as many table ids as the catalog
\* has tables.
C13_NoIdCollapse ==
  (Compiled /\ tablesOn) =>
     /\ TableKeySetsAgree
     /\ Cardinality(DOMAIN store.TABLES) = Cardinality(DOMAIN tablesSrc.tables)

====
